---- MODULE Spec2Model ----
(***************************************************************************)
(* Forum & topic rating API (FastAPI + SQLAlchemy): the storage tables,    *)
(* the request handlers of app/api/v1 and the guards of app/api/deps.py.   *)
(*                                                                         *)
(* Tables are sets of rows.  A handler is modelled query by query: every   *)
(* SELECT reads the committed tables, and flush + COMMIT is one atomic     *)
(* write that the storage engine checks against its constraints.           *)
(*   SpecSeq   one request at a time (each handler runs to completion)     *)
(*   SpecRate  rate_topic requests of several workers, interleaved between *)
(*             the lookup and the commit                                   *)
(*   SpecTime  rate_topic requests served one at a time while the clock    *)
(*             advances, ill-formed requests included                      *)
(*   SpecPosts posts: handlers interleaved between their queries           *)
(*   SpecComments  comments and post deletion on two existing posts        *)
(*   SpecPage  the pagination arithmetic of the list endpoints             *)
(*   SpecCommentList  creating, deleting and listing comments              *)
(*   SpecAuth  the operations behind get_current_user, one at a time       *)
(*   SpecCommentsSeq  the requests of SpecComments, one at a time          *)
(*   SpecUsers, SpecUsersSeq  register, create_topic and list_users from   *)
(*             an empty database, interleaved and one at a time            *)
(*   SpecSession  the session get_db opens and closes around a request     *)
(*   SpecTxn   the handlers that insert a row, split between db.commit()   *)
(*             and db.refresh()                                            *)
(*   SpecCommentListSeq  SpecCommentList with post deletion, one request   *)
(*             at a time                                                   *)
(*   SpecLogin SpecUsersSeq with login                                     *)
(***************************************************************************)
EXTENDS Integers, Sequences, FiniteSets, TLC

VARIABLES
    users,      \* table User:    rows [user_id, username, role]
    topics,     \* table Topic:   rows [topic_id, name]
    ratings,    \* table Rating:  rows [rating_id, user_id, topic_id, score, comment, created_at, updated_at]
    posts,      \* table Post:    rows [post_id, author_id, is_deleted, created_at, updated_at]
    comments,   \* table Comment: rows [comment_id, post_id, author_id, is_deleted, created_at]
    clock,      \* wall-clock time
    req,        \* per worker: the request it is in the middle of, or Idle
    resp,       \* the response sent by the step just taken, or NoResp
    sessions    \* the workers whose request holds a session that get_db
                \* opened and has not closed; followed in SpecSession, the
                \* other specifications take a request's session as given

vars == <<users, topics, ratings, posts, comments, clock, req, resp, sessions>>

----------------------------------------------------------------------------
(* Values *)

\* Python None where a string is expected
None == "None"
\* .first() found nothing / a dependency returned no row
NoRow == [nil |-> TRUE]
NoResp == [op |-> "none"]
Idle == [op |-> "idle"]

\* RatingCreate.score: Field(..., ge=1, le=5); ck_rating_score
MinScore == 1
MaxScore == 5

\* models.py is imported once; datetime.now(UTC) in Column(default=...,
\* onupdate=...) is evaluated at that moment and the resulting constant is
\* what every later INSERT / UPDATE stores.
BootTime == 0

\* the model stops the clock here
MaxClock == 1

Workers == {"w1", "w2"}

Max(S) == CHOOSE x \in S : \A y \in S : y <= x

\* Query.first(): one row of the result, or None
first(S) == IF S = {} THEN NoRow ELSE CHOOSE r \in S : TRUE

\* a row of table User and a row of table Topic; the columns no handler
\* decides on (password_hash, nickname, description, created_at) are left out
User(user_id, username, role) ==
    [user_id |-> user_id, username |-> username, role |-> role]
Topic(topic_id, name) == [topic_id |-> topic_id, name |-> name]

----------------------------------------------------------------------------
(* app/api/deps.py *)

\* A bearer token as jwt.decode sees it: ok = well-formed, signed with the
\* key and not expired; sub = the "sub" claim (a string, or None if absent).
\* Subject "9" names no user.
GoodTokens == { [ok |-> TRUE, sub |-> s] : s \in {"1", "2", "3"} }
BadTokens ==
    { [ok |-> TRUE, sub |-> s] : s \in {"9", "abc", None} }
      \cup { [ok |-> FALSE, sub |-> "1"] }
Tokens == GoodTokens \cup BadTokens

\* int(sub): the decimal strings parse, anything else raises ValueError
IsIntStr(s) == s \in {"1", "2", "3", "9"}
int(s) == CASE s = "1" -> 1 [] s = "2" -> 2 [] s = "3" -> 3 [] s = "9" -> 9

\* a guard that decodes the token without verifying it
get_current_user_unverified(token) ==
    IF token.sub = None THEN NoRow
    ELSE IF ~IsIntStr(token.sub) THEN NoRow
    ELSE first({u \in users : u.user_id = int(token.sub)})

\* the current user row, or NoRow when credentials_exception (401) is raised
get_current_user(token) ==
    IF ~token.ok THEN NoRow
    ELSE IF token.sub = None THEN NoRow
    ELSE IF ~IsIntStr(token.sub) THEN NoRow
    ELSE first({u \in users : u.user_id = int(token.sub)})

----------------------------------------------------------------------------
(* Topic & Rating: app/api/v1/topics.py *)

\* path and body topic ids the requests use; the tables never hold 3 or 4
TopicIds == 1..4

RatingCreate(topic_id, score, comment) ==
    [topic_id |-> topic_id, score |-> score, comment |-> comment]

RateCall(token, topic_id, rating_in) ==
    [token |-> token, topic_id |-> topic_id, rating_in |-> rating_in]

\* the well-formed rate_topic requests of the users (token subjects) in us
\* for the topics in ts
GoodCalls(us, ts) ==
    { RateCall([ok |-> TRUE, sub |-> u], t, RatingCreate(t, s, c)) :
        u \in us, t \in ts, s \in {MinScore, MaxScore}, c \in {None, "good"} }

\* (path id, body id) pairs that differ: both with a row, one with a row,
\* neither with a row, when the table holds topics 1 and 2
MismatchedIds == { <<1, 2>>, <<2, 1>>, <<1, 3>>, <<3, 1>>, <<3, 4>> }

\* requests rate_topic must refuse: a token that does not authenticate, a
\* score out of range, a body topic id that differs from the path id, a
\* topic id with no row
FaultyCalls ==
    { RateCall(k, 1, RatingCreate(1, MaxScore, None)) : k \in BadTokens }
    \cup { RateCall([ok |-> TRUE, sub |-> "1"], 1, RatingCreate(1, s, None)) :
              s \in {MinScore - 1, MaxScore + 1} }
    \cup { RateCall([ok |-> TRUE, sub |-> "1"], p[1], RatingCreate(p[2], MaxScore, "good")) :
              p \in MismatchedIds }
    \cup { RateCall([ok |-> TRUE, sub |-> "2"], t, RatingCreate(t, MinScore, None)) :
              t \in {3, 4} }

\* INTEGER PRIMARY KEY: the next key is the largest one in the table plus one
NextRatingId(rs) == IF rs = {} THEN 1 ELSE Max({r.rating_id : r \in rs}) + 1

\* the table without its unique constraint
no_unique_constraint(rs, row) == TRUE

\* UniqueConstraint("user_id", "topic_id"): may `row` be inserted into rs?
uq_rating_user_topic(rs, row) ==
    \A r \in rs : ~(r.user_id = row.user_id /\ r.topic_id = row.topic_id)

\* CheckConstraint("score BETWEEN 1 AND 5")
ck_rating_score(row) == row.score >= MinScore /\ row.score <= MaxScore

\* Column defaults of Rating on INSERT
Rating(rating_id, topic_id, user_id, score, comment) ==
    [rating_id |-> rating_id, user_id |-> user_id, topic_id |-> topic_id,
     score |-> score, comment |-> comment,
     created_at |-> BootTime, updated_at |-> BootTime]

\* rate_topic without the validation of the score
rate_topic_no_score_check(token, topic_id, rating_in) ==
    IF get_current_user(token) = NoRow THEN 401
    ELSE IF topic_id # rating_in.topic_id THEN 400
    ELSE IF first({t \in topics : t.topic_id = topic_id}) = NoRow THEN 404
    ELSE 0

\* rate_topic without the check that the topic exists
rate_topic_no_topic_check(token, topic_id, rating_in) ==
    IF get_current_user(token) = NoRow THEN 401
    ELSE IF rating_in.score < MinScore \/ rating_in.score > MaxScore THEN 422
    ELSE IF topic_id # rating_in.topic_id THEN 400
    ELSE 0

\* rate_topic that looks the topic up before it compares the two topic ids
rate_topic_topic_check_first(token, topic_id, rating_in) ==
    IF get_current_user(token) = NoRow THEN 401
    ELSE IF rating_in.score < MinScore \/ rating_in.score > MaxScore THEN 422
    ELSE IF first({t \in topics : t.topic_id = topic_id}) = NoRow THEN 404
    ELSE IF topic_id # rating_in.topic_id THEN 400
    ELSE 0

\* rate_topic up to the topic check: the status it fails with, or 0
rate_topic_reject(token, topic_id, rating_in) ==
    IF get_current_user(token) = NoRow THEN 401
    ELSE IF rating_in.score < MinScore \/ rating_in.score > MaxScore THEN 422
    ELSE IF topic_id # rating_in.topic_id THEN 400
    ELSE IF first({t \in topics : t.topic_id = topic_id}) = NoRow THEN 404
    ELSE 0

\* the lookup of the user's rating of the topic
rate_topic_lookup(rs, user_id, topic_id) ==
    first({r \in rs : r.topic_id = topic_id /\ r.user_id = user_id})

\* an update that writes the score and keeps the stored comment
rate_topic_update_score_only(rs, rating, rating_in) ==
    { IF r.rating_id # rating.rating_id THEN r
      ELSE [r EXCEPT !.score = rating_in.score, !.updated_at = BootTime] : r \in rs }

\* the UPDATE the unit of work emits for a loaded row: only the attributes
\* whose value differs from the loaded one, plus onupdate; none if no
\* attribute changed
rate_topic_update(rs, rating, rating_in) ==
    LET sc == rating_in.score # rating.score
        cm == rating_in.comment # rating.comment
    IN  IF ~(sc \/ cm) THEN rs
        ELSE { IF r.rating_id # rating.rating_id THEN r
               ELSE [r EXCEPT !.score = IF sc THEN rating_in.score ELSE @,
                              !.comment = IF cm THEN rating_in.comment ELSE @,
                              !.updated_at = BootTime] : r \in rs }

\* db.commit(): flush the pending UPDATE or INSERT against the committed
\* table rs.  ok = FALSE is IntegrityError.
rate_topic_commit(rs, user_id, topic_id, rating_in, rating) ==
    IF rating # NoRow
    THEN LET rows == rate_topic_update(rs, rating, rating_in)
         IN  IF \A r \in rows : ck_rating_score(r)
             THEN [ok |-> TRUE, rating_id |-> rating.rating_id, rows |-> rows]
             ELSE [ok |-> FALSE, rating_id |-> 0, rows |-> rs]
    ELSE LET row == Rating(NextRatingId(rs), topic_id, user_id,
                           rating_in.score, rating_in.comment)
         IN  IF uq_rating_user_topic(rs, row) /\ ck_rating_score(row)
             THEN [ok |-> TRUE, rating_id |-> row.rating_id, rows |-> rs \cup {row}]
             ELSE [ok |-> FALSE, rating_id |-> 0, rows |-> rs]

\* the response of rate_topic, with the request it answers: RatingOut of
\* the refreshed row, or the error
RateResp(status, token, topic_id, rating_in, rs, rating_id) ==
    [op |-> "rate_topic", status |-> status,
     token |-> token, topic_id |-> topic_id, rating_in |-> rating_in,
     body |-> IF status = 201 THEN first({r \in rs : r.rating_id = rating_id})
              ELSE NoRow]

\* rate_topic, run to completion with no other request in between
rate_topic(token, topic_id, rating_in) ==
    LET rej == rate_topic_reject(token, topic_id, rating_in)
        user == get_current_user(token)
        rating == rate_topic_lookup(ratings, user.user_id, topic_id)
        res == rate_topic_commit(ratings, user.user_id, topic_id, rating_in, rating)
    IN  /\ IF rej # 0
           THEN /\ ratings' = ratings
                /\ resp' = RateResp(rej, token, topic_id, rating_in, ratings, 0)
           ELSE IF res.ok
           THEN /\ ratings' = res.rows
                /\ resp' = RateResp(201, token, topic_id, rating_in, res.rows, res.rating_id)
           ELSE /\ ratings' = ratings
                /\ resp' = RateResp(500, token, topic_id, rating_in, ratings, 0)
        /\ UNCHANGED <<sessions, users, topics, posts, comments, clock, req>>

\* func.avg over a set of rows, as an exact fraction in lowest terms; SQL
\* AVG of no rows is NULL
SumScores(rs) ==
    LET RECURSIVE sum(_)
        sum(S) == IF S = {} THEN 0
                  ELSE LET r == CHOOSE x \in S : TRUE IN r.score + sum(S \ {r})
    IN  sum(rs)

RECURSIVE gcd(_, _)
gcd(a, b) == IF b = 0 THEN a ELSE gcd(b, a % b)

NullAvg == [null |-> TRUE]

func_avg(rs) ==
    IF rs = {} THEN NullAvg
    ELSE LET n == SumScores(rs)
             d == Cardinality(rs)
             g == gcd(n, d)
         IN  [num |-> n \div g, den |-> d \div g]

\* an aggregate over the ratings of every topic
all_ratings_query(rs, topic_id) == rs

\* the aggregate query of get_topic_stats
topic_stats_query(rs, topic_id) == { r \in rs : r.topic_id = topic_id }

get_topic_stats(topic_id) ==
    LET topic == first({t \in topics : t.topic_id = topic_id})
        rows == topic_stats_query(ratings, topic_id)
    IN  /\ resp' = IF topic = NoRow
                   THEN [op |-> "get_topic_stats", status |-> 404, topic_id |-> topic_id]
                   ELSE [op |-> "get_topic_stats", status |-> 200, topic_id |-> topic_id,
                         avg_score |-> func_avg(rows),
                         rating_count |-> Cardinality(rows)]
        /\ UNCHANGED <<sessions, users, topics, ratings, posts, comments, clock, req>>

Tick ==
    /\ clock < MaxClock
    /\ clock' = clock + 1
    /\ resp' = NoResp
    /\ UNCHANGED <<sessions, users, topics, ratings, posts, comments, req>>

----------------------------------------------------------------------------
(* SpecSeq: requests served one at a time *)

InitSeq ==
    /\ users = { User(1, "u1", "user"), User(2, "u2", "user") }
    /\ topics = { Topic(1, "t1"), Topic(2, "t2") }
    /\ ratings = {}
    /\ posts = {}
    /\ comments = {}
    /\ clock = BootTime
    /\ req = [w \in Workers |-> Idle]
    /\ resp = NoResp
    /\ sessions = {}

SeqCalls == GoodCalls({"1", "2"}, {1, 2})

NextSeq ==
    \/ \E c \in SeqCalls : rate_topic(c.token, c.topic_id, c.rating_in)
    \/ \E topic_id \in TopicIds : get_topic_stats(topic_id)

SpecSeq == InitSeq /\ [][NextSeq]_vars

----------------------------------------------------------------------------
(* SpecRate: rate_topic requests of concurrent workers.  Each request has   *)
(* its own session: the lookup reads the committed table, and the row it    *)
(* loaded stays in the session until db.commit() flushes.                   *)

\* rate_topic down to the lookup of the existing rating
rate_topic_begin(w, token, topic_id, rating_in) ==
    LET rej == rate_topic_reject(token, topic_id, rating_in)
        user == get_current_user(token)
    IN  /\ req[w] = Idle
        /\ IF rej # 0
           THEN /\ resp' = RateResp(rej, token, topic_id, rating_in, ratings, 0)
                /\ req' = req
           ELSE /\ resp' = NoResp
                /\ req' = [req EXCEPT ![w] =
                              [op |-> "rate_topic", token |-> token,
                               user_id |-> user.user_id,
                               topic_id |-> topic_id, rating_in |-> rating_in,
                               rating |-> rate_topic_lookup(ratings, user.user_id, topic_id)]]
        /\ UNCHANGED <<sessions, users, topics, ratings, posts, comments, clock>>

\* db.commit(), db.refresh(rating) and the return; IntegrityError is not
\* caught by the handler, so the request ends in 500
rate_topic_end(w) ==
    LET r == req[w]
        res == rate_topic_commit(ratings, r.user_id, r.topic_id, r.rating_in, r.rating)
    IN  /\ r.op = "rate_topic"
        /\ IF res.ok
           THEN /\ ratings' = res.rows
                /\ resp' = RateResp(201, r.token, r.topic_id, r.rating_in,
                                    res.rows, res.rating_id)
           ELSE /\ ratings' = ratings
                /\ resp' = RateResp(500, r.token, r.topic_id, r.rating_in, ratings, 0)
        /\ req' = [req EXCEPT ![w] = Idle]
        /\ UNCHANGED <<sessions, users, topics, posts, comments, clock>>

InitRate ==
    /\ users = { User(1, "u1", "user"), User(2, "u2", "user") }
    /\ topics = { Topic(1, "t1"), Topic(2, "t2") }
    /\ ratings = {}
    /\ posts = {}
    /\ comments = {}
    /\ clock = BootTime
    /\ req = [w \in Workers |-> Idle]
    /\ resp = NoResp
    /\ sessions = {}

\* the users rate topic 1 only
ConcCalls == GoodCalls({"1", "2"}, {1}) \cup FaultyCalls

NextRate ==
    \/ \E w \in Workers, c \in ConcCalls :
          rate_topic_begin(w, c.token, c.topic_id, c.rating_in)
    \/ \E w \in Workers : rate_topic_end(w)
    \/ Tick

SpecRate == InitRate /\ [][NextRate]_vars

----------------------------------------------------------------------------
(* SpecTime: one request at a time, with the clock running *)

NextTime ==
    \/ \E c \in ConcCalls : rate_topic(c.token, c.topic_id, c.rating_in)
    \/ Tick

SpecTime == InitRate /\ [][NextTime]_vars

----------------------------------------------------------------------------
(* Properties of the rating upsert *)

RatingsOf(rs, user_id, topic_id) ==
    { r \in rs : r.user_id = user_id /\ r.topic_id = topic_id }

\* the request that resp answers passed authentication and body validation
WellFormed(r) ==
    /\ get_current_user(r.token) # NoRow
    /\ r.rating_in.score \in MinScore..MaxScore

\* C1: a successful rate_topic call, served alone, leaves exactly one Rating
\* row for its (user, topic) pair, holding the call's score and comment, and
\* leaves every other pair's rows as they were.  So after any sequence of
\* such calls the pair has one row with the values of the most recent call.
C1_OneRowLatestValues ==
    [][(resp'.op = "rate_topic" /\ resp'.status = 201) =>
          LET u == get_current_user(resp'.token).user_id
              t == resp'.topic_id
              rows == RatingsOf(ratings', u, t)
          IN  /\ Cardinality(rows) = 1
              /\ \A r \in rows : /\ r.score = resp'.rating_in.score
                                 /\ r.comment = resp'.rating_in.comment
              /\ \A r \in ratings \cup ratings' :
                    (r.user_id # u \/ r.topic_id # t)
                      => (r \in ratings /\ r \in ratings')]_vars

\* C1 witness: the call just served overwrote the older of two rows
C1_Witness ==
    /\ resp.op = "rate_topic"
    /\ resp.status = 201
    /\ Cardinality(ratings) >= 2
    /\ resp.body.rating_id = 1
    /\ resp.body.score = MaxScore
    /\ resp.body.comment = "good"
    /\ resp.rating_in.score = MaxScore

\* C2: at most one Rating row per (user_id, topic_id), in every state of
\* every interleaving of the lookups and commits of concurrent requests
C2_AtMostOneRatingPerPair ==
    \A r1 \in ratings, r2 \in ratings :
        (r1.user_id = r2.user_id /\ r1.topic_id = r2.topic_id) => r1 = r2

\* a worker whose lookup found nothing, while the pair has a row by now
LostRace(w) ==
    /\ req[w].op = "rate_topic"
    /\ req[w].rating = NoRow
    /\ RatingsOf(ratings, req[w].user_id, req[w].topic_id) # {}

\* C2 witness: a request is about to insert a row for a pair that another
\* request, which looked up at the same time, has already inserted
C2_Witness == \E w \in Workers : LostRace(w)

\* statuses by which the API reports a uniqueness conflict to its caller
ConflictStatus == {400, 409}

\* C3: of two first-time requests for one pair that both looked up before
\* either committed, the second to commit ends with a Conflict error and
\* the stored row stays the winner's
C3_RaceLoserGetsConflict ==
    [][\A w \in Workers :
          (LostRace(w) /\ req'[w] = Idle) =>
             (resp'.status \in ConflictStatus /\ ratings' = ratings)]_vars

\* C4: a call that finds no rating creates the row with created_at = the
\* time of the call; a call that finds one keeps its rating_id and
\* created_at.  So the id and created_at are those of the first call.
C4_IdAndCreatedAtOfFirstCall ==
    [][(resp'.op = "rate_topic" /\ resp'.status = 201) =>
          LET u == get_current_user(resp'.token).user_id
              old == RatingsOf(ratings, u, resp'.topic_id)
              new == RatingsOf(ratings', u, resp'.topic_id)
          IN  \A n \in new :
                 IF old = {} THEN n.created_at = clock
                 ELSE \A o \in old : /\ n.rating_id = o.rating_id
                                     /\ n.created_at = o.created_at]_vars

C8_TopicIdMismatchBadRequest ==
    [][( /\ resp'.op = "rate_topic"
         /\ WellFormed(resp')
         /\ resp'.rating_in.topic_id # resp'.topic_id )
       => (resp'.status = 400 /\ ratings' = ratings)]_vars

\* C8 witness: a 400 was just answered for ids that both have no row,
\* while ratings exist
C8_Witness ==
    /\ resp.op = "rate_topic"
    /\ resp.status = 400
    /\ \A t \in topics : t.topic_id \notin {resp.topic_id, resp.rating_in.topic_id}
    /\ ratings # {}

\* the sum of the scores of a set of rows, score by score
ScoreTotal(rs) ==
    LET n(s) == Cardinality({r \in rs : r.score = s})
    IN  1 * n(1) + 2 * n(2) + 3 * n(3) + 4 * n(4) + 5 * n(5)

\* C9: get_topic_stats of an existing topic reports rating_count = the
\* number of Rating rows of the topic = the number of users that rated it,
\* avg_score null exactly when the count is 0 and otherwise
\* avg_score * rating_count = the sum of the scores; for an id with no Topic
\* row it answers 404
C9_StatsAreCountAndMean ==
    resp.op = "get_topic_stats" =>
        LET rows == { r \in ratings : r.topic_id = resp.topic_id }
            raters == { u \in users : \E r \in rows : r.user_id = u.user_id }
        IN  IF \E t \in topics : t.topic_id = resp.topic_id
            THEN /\ resp.status = 200
                 /\ resp.rating_count = Cardinality(rows)
                 /\ resp.rating_count = Cardinality(raters)
                 /\ (resp.avg_score = NullAvg) <=> (resp.rating_count = 0)
                 /\ resp.rating_count > 0 =>
                       resp.avg_score.num * resp.rating_count
                         = resp.avg_score.den * ScoreTotal(rows)
            ELSE resp.status = 404

\* C9 witness: stats of a topic rated 1 and 5 (mean 3) while the other
\* topic has a rating too
C9_Witness ==
    /\ resp.op = "get_topic_stats"
    /\ resp.status = 200
    /\ resp.rating_count = 2
    /\ resp.avg_score = [num |-> 3, den |-> 1]
    /\ \E r \in ratings : r.topic_id # resp.topic_id

----------------------------------------------------------------------------
(* Pagination: app/schemas/pagination.py and the list endpoints *)

\* PaginationParams: page >= 1, 1 <= per_page <= 100
MaxPerPage == 100

PaginationParams(page, per_page) ==
    page >= 1 /\ per_page >= 1 /\ per_page <= MaxPerPage

\* PaginatedResponse without its items.  Every list endpoint carries its own
\* copy of the arithmetic.
PaginatedResponse(offset, total, page, per_page, total_pages, has_prev, has_next) ==
    [offset |-> offset, total |-> total, page |-> page, per_page |-> per_page,
     total_pages |-> total_pages, has_prev |-> has_prev, has_next |-> has_next]

\* page arithmetic that rounds total_pages down
list_posts_page_floor(page, per_page, total) ==
    LET offset == (page - 1) * per_page
        total_pages == total \div per_page
    IN  PaginatedResponse(offset, total, page, per_page, total_pages,
                          page > 1, page < total_pages)

list_posts_page(page, per_page, total) ==
    LET offset == (page - 1) * per_page
        total_pages == (total + per_page - 1) \div per_page
    IN  PaginatedResponse(offset, total, page, per_page, total_pages,
                          page > 1, page < total_pages)

list_comments_page(page, per_page, total) ==
    LET offset == (page - 1) * per_page
        total_pages == (total + per_page - 1) \div per_page
    IN  PaginatedResponse(offset, total, page, per_page, total_pages,
                          page > 1, page < total_pages)

list_topics_page(page, per_page, total) ==
    LET offset == (page - 1) * per_page
        total_pages == (total + per_page - 1) \div per_page
    IN  PaginatedResponse(offset, total, page, per_page, total_pages,
                          page > 1, page < total_pages)

list_ratings_page(page, per_page, total) ==
    LET offset == (page - 1) * per_page
        total_pages == (total + per_page - 1) \div per_page
    IN  PaginatedResponse(offset, total, page, per_page, total_pages,
                          page > 1, page < total_pages)

list_users_page(page, per_page, total) ==
    LET offset == (page - 1) * per_page
        total_pages == (total + per_page - 1) \div per_page
    IN  PaginatedResponse(offset, total, page, per_page, total_pages,
                          page > 1, page < total_pages)

Endpoints == {"posts", "comments", "topics", "ratings", "users"}

PageOf(endpoint, page, per_page, total) ==
    CASE endpoint = "posts" -> list_posts_page(page, per_page, total)
      [] endpoint = "comments" -> list_comments_page(page, per_page, total)
      [] endpoint = "topics" -> list_topics_page(page, per_page, total)
      [] endpoint = "ratings" -> list_ratings_page(page, per_page, total)
      [] endpoint = "users" -> list_users_page(page, per_page, total)

\* largest page number and row count the pagination check draws
MaxPage == 3
MaxTotal == 45

\* a list request whose count query returned `total`: 422 if the query
\* parameters do not validate, else the page metadata
paginate(w) ==
    LET r == req[w]
    IN  /\ r.op = "list"
        /\ resp' = IF PaginationParams(r.page, r.per_page)
                   THEN [op |-> "list", status |-> 200, endpoint |-> r.endpoint,
                         meta |-> PageOf(r.endpoint, r.page, r.per_page, r.total)]
                   ELSE [op |-> "list", status |-> 422, endpoint |-> r.endpoint,
                         page |-> r.page, per_page |-> r.per_page]
        /\ req' = [req EXCEPT ![w] = Idle]
        /\ UNCHANGED <<sessions, users, topics, ratings, posts, comments, clock>>

InitPage ==
    /\ users = {}
    /\ topics = {}
    /\ ratings = {}
    /\ posts = {}
    /\ comments = {}
    /\ clock = BootTime
    /\ resp = NoResp
    /\ sessions = {}
    /\ \E e \in Endpoints, page \in 0..MaxPage, per_page \in 0..(MaxPerPage + 1),
          total \in 0..MaxTotal :
          req = [w \in Workers |->
                   IF w = "w1"
                   THEN [op |-> "list", endpoint |-> e, page |-> page,
                         per_page |-> per_page, total |-> total]
                   ELSE Idle]

NextPage == \E w \in Workers : paginate(w)

SpecPage == InitPage /\ [][NextPage]_vars

\* the least n with n * per_page >= total
Ceil(total, per_page) ==
    CHOOSE n \in 0..total : n * per_page >= total /\ \A m \in 0..(n - 1) : m * per_page < total

\* C10: for page >= 1, per_page in 1..100 and total >= 0 every list endpoint
\* uses offset = (page-1)*per_page and reports total_pages =
\* ceil(total/per_page) (0 when total = 0), has_prev = (page > 1) and
\* has_next = (page < total_pages); has_next is false when total = 0
C10_PaginationMath ==
    (resp.op = "list" /\ resp.status = 200) =>
        LET m == resp.meta
        IN  /\ m.page >= 1 /\ m.per_page \in 1..MaxPerPage
            /\ m.offset = (m.page - 1) * m.per_page
            /\ m.total_pages = Ceil(m.total, m.per_page)
            /\ m.total = 0 => (m.total_pages = 0 /\ ~m.has_next)
            /\ m.has_prev <=> (m.page > 1)
            /\ m.has_next <=> (m.page < m.total_pages)

\* C10 witness: total = 45, per_page = 20, page = 3 gives three pages, a
\* previous page and no next page
C10_Witness ==
    /\ resp.op = "list"
    /\ resp.status = 200
    /\ resp.meta.total = 45 /\ resp.meta.per_page = 20 /\ resp.meta.page = 3
    /\ resp.meta.total_pages = 3 /\ resp.meta.has_prev /\ ~resp.meta.has_next

----------------------------------------------------------------------------
(* Posts and comments: app/api/v1/posts_comments_ratings.py.  Title and     *)
(* content are payload that no handler inspects; the rows omit them.        *)

\* the model stops creating rows at these table sizes
MaxPosts == 2
MaxComments == 2

NextPostId(ps) == IF ps = {} THEN 1 ELSE Max({p.post_id : p \in ps}) + 1
NextCommentId(cs) == IF cs = {} THEN 1 ELSE Max({c.comment_id : c \in cs}) + 1

\* Column defaults of Post on INSERT: created_at calls datetime.utcnow,
\* updated_at is the constant computed at import
Post(post_id, author_id) ==
    [post_id |-> post_id, author_id |-> author_id, is_deleted |-> FALSE,
     created_at |-> clock, updated_at |-> BootTime]

\* Column defaults of Comment on INSERT
Comment(comment_id, post_id, author_id) ==
    [comment_id |-> comment_id, post_id |-> post_id, author_id |-> author_id,
     is_deleted |-> FALSE, created_at |-> BootTime]

\* The INSERT reads datetime.utcnow for created_at; serving the request
\* takes longer than the clock's resolution, so the next request reads a
\* later time.
create_post(token) ==
    LET current_user == get_current_user(token)
        post == Post(NextPostId(posts), current_user.user_id)
    IN  /\ Cardinality(posts) < MaxPosts
        /\ IF current_user = NoRow
           THEN /\ posts' = posts
                /\ clock' = clock
                /\ resp' = [op |-> "create_post", status |-> 401, token |-> token,
                          body |-> NoRow]
           ELSE /\ posts' = posts \cup {post}
                /\ clock' = clock + 1
                /\ resp' = [op |-> "create_post", status |-> 201, token |-> token,
                          body |-> post]
        /\ UNCHANGED <<sessions, users, topics, ratings, comments, req>>

\* a query that does not filter on is_deleted
any_post(ps, post_id) == first({p \in ps : p.post_id = post_id})

\* the query of get_post and of create_comment: the post, unless soft-deleted
visible_post(ps, post_id) ==
    first({p \in ps : p.post_id = post_id /\ p.is_deleted = FALSE})

get_post(post_id) ==
    LET post == visible_post(posts, post_id)
    IN  /\ resp' = [op |-> "get_post", post_id |-> post_id,
                    status |-> IF post = NoRow THEN 404 ELSE 200, body |-> post]
        /\ UNCHANGED <<sessions, users, topics, ratings, posts, comments, clock, req>>

\* the sequences that hold each element of S once
Perms(S) ==
    { f \in [1..Cardinality(S) -> S] : \A i, j \in 1..Cardinality(S) : f[i] = f[j] => i = j }

\* pages in the order oldest first
page_oldest_first(rows, offset, limit) ==
    { SubSeq(f, offset + 1, IF offset + limit < Len(f) THEN offset + limit ELSE Len(f)) :
        f \in { g \in Perms(rows) :
                  \A i, j \in 1..Cardinality(rows) :
                     i < j => g[i].created_at <= g[j].created_at } }

\* the pages ORDER BY created_at DESC OFFSET LIMIT may return: rows of equal
\* created_at come in an order the storage engine chooses
page_desc(rows, offset, limit) ==
    { SubSeq(f, offset + 1, IF offset + limit < Len(f) THEN offset + limit ELSE Len(f)) :
        f \in { g \in Perms(rows) :
                  \A i, j \in 1..Cardinality(rows) :
                     i < j => g[i].created_at >= g[j].created_at } }

\* list_posts: the count query
list_posts_count(w, page, per_page) ==
    /\ req[w] = Idle
    /\ PaginationParams(page, per_page)
    /\ req' = [req EXCEPT ![w] =
                  [op |-> "list_posts", page |-> page, per_page |-> per_page,
                   total |-> Cardinality({p \in posts : p.is_deleted = FALSE})]]
    /\ resp' = NoResp
    /\ UNCHANGED <<sessions, users, topics, ratings, posts, comments, clock>>

\* list_posts: the items query and the response
list_posts_items(w) ==
    LET r == req[w]
        meta == list_posts_page(r.page, r.per_page, r.total)
    IN  /\ r.op = "list_posts"
        /\ \E items \in page_desc({p \in posts : p.is_deleted = FALSE},
                                   meta.offset, r.per_page) :
              resp' = [op |-> "list_posts", status |-> 200, meta |-> meta,
                       items |-> [i \in 1..Len(items) |-> items[i].post_id]]
        /\ req' = [req EXCEPT ![w] = Idle]
        /\ UNCHANGED <<sessions, users, topics, ratings, posts, comments, clock>>

\* a permission check that lets only the author through
author_only(current_user, author_id) == author_id = current_user.user_id

\* the actor may delete a row of this author
may_delete(current_user, author_id) ==
    ~(current_user.role # "admin" /\ author_id # current_user.user_id)

\* a lookup that leaves soft-deleted posts out
delete_post_lookup_live(ps, post_id) ==
    first({p \in ps : p.post_id = post_id /\ p.is_deleted = FALSE})

\* the query of delete_post: the post, soft-deleted or not
delete_post_lookup(ps, post_id) == first({p \in ps : p.post_id = post_id})

\* delete_post down to the permission check
delete_post_begin(w, token, post_id) ==
    LET current_user == get_current_user(token)
        post == delete_post_lookup(posts, post_id)
        status == IF current_user = NoRow THEN 401
                  ELSE IF post = NoRow THEN 404
                  ELSE IF ~may_delete(current_user, post.author_id) THEN 403
                  ELSE 0
    IN  /\ req[w] = Idle
        /\ IF status # 0
           THEN /\ resp' = [op |-> "delete_post", status |-> status,
                            token |-> token, post_id |-> post_id]
                /\ req' = req
           ELSE /\ resp' = NoResp
                /\ req' = [req EXCEPT ![w] =
                              [op |-> "delete_post", token |-> token, post |-> post]]
        /\ UNCHANGED <<sessions, users, topics, ratings, posts, comments, clock>>

\* a delete that inverts the stored flag
toggle_post(ps, post) ==
    { IF p.post_id = post.post_id
      THEN [p EXCEPT !.is_deleted = ~p.is_deleted]
      ELSE p : p \in ps }

\* a delete that flags every post
soft_delete_all_posts(ps, post) ==
    { [p EXCEPT !.is_deleted = TRUE] : p \in ps }

\* post.is_deleted = True; db.commit(): an UPDATE of the row unless the
\* loaded flag was already true
soft_delete_post(ps, post) ==
    IF post.is_deleted THEN ps
    ELSE { IF p.post_id = post.post_id
           THEN [p EXCEPT !.is_deleted = TRUE, !.updated_at = BootTime]
           ELSE p : p \in ps }

delete_post_end(w) ==
    LET r == req[w]
    IN  /\ r.op = "delete_post"
        /\ posts' = soft_delete_post(posts, r.post)
        /\ resp' = [op |-> "delete_post", status |-> 204,
                    token |-> r.token, post_id |-> r.post.post_id]
        /\ req' = [req EXCEPT ![w] = Idle]
        /\ UNCHANGED <<sessions, users, topics, ratings, comments, clock>>

\* create_comment down to the check of the post
create_comment_begin(w, token, post_id) ==
    LET current_user == get_current_user(token)
        status == IF current_user = NoRow THEN 401
                  ELSE IF visible_post(posts, post_id) = NoRow THEN 404
                  ELSE 0
    IN  /\ req[w] = Idle
        /\ Cardinality(comments)
             + Cardinality({v \in Workers : req[v].op = "create_comment"}) < MaxComments
        /\ IF status # 0
           THEN /\ resp' = [op |-> "create_comment", status |-> status,
                            token |-> token, post_id |-> post_id, body |-> NoRow]
                /\ req' = req
           ELSE /\ resp' = NoResp
                /\ req' = [req EXCEPT ![w] =
                              [op |-> "create_comment", token |-> token,
                               post_id |-> post_id,
                               author_id |-> current_user.user_id]]
        /\ UNCHANGED <<sessions, users, topics, ratings, posts, comments, clock>>

\* db.add(comment); db.commit(); db.refresh(comment)
create_comment_end(w) ==
    LET r == req[w]
        comment == Comment(NextCommentId(comments), r.post_id, r.author_id)
    IN  /\ r.op = "create_comment"
        /\ comments' = comments \cup {comment}
        /\ resp' = [op |-> "create_comment", status |-> 201,
                    token |-> r.token, post_id |-> r.post_id, body |-> comment]
        /\ req' = [req EXCEPT ![w] = Idle]
        /\ UNCHANGED <<sessions, users, topics, ratings, posts, clock>>

\* delete_comment down to the permission check
delete_comment_begin(w, token, comment_id) ==
    LET current_user == get_current_user(token)
        comment == first({c \in comments : c.comment_id = comment_id})
        status == IF current_user = NoRow THEN 401
                  ELSE IF comment = NoRow THEN 404
                  ELSE IF ~may_delete(current_user, comment.author_id) THEN 403
                  ELSE 0
    IN  /\ req[w] = Idle
        /\ IF status # 0
           THEN /\ resp' = [op |-> "delete_comment", status |-> status,
                            token |-> token, comment_id |-> comment_id]
                /\ req' = req
           ELSE /\ resp' = NoResp
                /\ req' = [req EXCEPT ![w] =
                              [op |-> "delete_comment", token |-> token,
                               comment |-> comment]]
        /\ UNCHANGED <<sessions, users, topics, ratings, posts, comments, clock>>

\* a delete that removes the row
hard_delete_comment(cs, comment) ==
    { c \in cs : c.comment_id # comment.comment_id }

\* comment.is_deleted = True; db.commit()
soft_delete_comment(cs, comment) ==
    IF comment.is_deleted THEN cs
    ELSE { IF c.comment_id = comment.comment_id
           THEN [c EXCEPT !.is_deleted = TRUE]
           ELSE c : c \in cs }

delete_comment_end(w) ==
    LET r == req[w]
    IN  /\ r.op = "delete_comment"
        /\ comments' = soft_delete_comment(comments, r.comment)
        /\ resp' = [op |-> "delete_comment", status |-> 204,
                    token |-> r.token, comment_id |-> r.comment.comment_id]
        /\ req' = [req EXCEPT ![w] = Idle]
        /\ UNCHANGED <<sessions, users, topics, ratings, posts, clock>>

\* the tokens of the three users, and one that does not authenticate
PostTokens == GoodTokens \cup { [ok |-> FALSE, sub |-> "1"] }

\* the tokens that requests creating rows come with: the two plain users
\* and one that does not authenticate
AuthorTokens == { t \in PostTokens : t.sub \in {"1", "2"} }

\* the ids requests name: those of the rows, and one that names no row
PostIds(ps) == {p.post_id : p \in ps} \cup {NextPostId(ps)}
CommentIds(cs) == {c.comment_id : c \in cs} \cup {NextCommentId(cs)}

InitPosts ==
    /\ users = { User(1, "u1", "user"), User(2, "u2", "user"),
                 User(3, "u3", "admin") }
    /\ topics = {}
    /\ ratings = {}
    /\ posts = {}
    /\ comments = {}
    /\ clock = BootTime
    /\ req = [w \in Workers |-> Idle]
    /\ resp = NoResp
    /\ sessions = {}


NextPosts ==
    \/ \E token \in AuthorTokens : create_post(token)
    \/ \E post_id \in PostIds(posts) : get_post(post_id)
    \/ \E w \in Workers, page \in 1..2, per_page \in 1..2 :
          list_posts_count(w, page, per_page)
    \/ \E w \in Workers : list_posts_items(w)
    \/ \E w \in Workers, token \in PostTokens, post_id \in PostIds(posts) :
          delete_post_begin(w, token, post_id)
    \/ \E w \in Workers : delete_post_end(w)

SpecPosts == InitPosts /\ [][NextPosts]_vars

\* two posts exist, the second soft-deleted by its author
InitComments ==
    /\ clock = BootTime + 2
    /\ users = { User(1, "u1", "user"), User(2, "u2", "user"),
                 User(3, "u3", "admin") }
    /\ topics = {}
    /\ ratings = {}
    /\ posts = { [Post(1, 1) EXCEPT !.created_at = BootTime],
                [Post(2, 2) EXCEPT !.created_at = BootTime + 1, !.is_deleted = TRUE] }
    /\ comments = {}
    /\ req = [w \in Workers |-> Idle]
    /\ resp = NoResp
    /\ sessions = {}

NextComments ==
    \/ \E w \in Workers, token \in PostTokens, post_id \in PostIds(posts) :
          delete_post_begin(w, token, post_id)
    \/ \E w \in Workers : delete_post_end(w)
    \/ \E w \in Workers, token \in AuthorTokens, post_id \in PostIds(posts) :
          create_comment_begin(w, token, post_id)
    \/ \E w \in Workers : create_comment_end(w)
    \/ \E w \in Workers, token \in PostTokens, comment_id \in CommentIds(comments) :
          delete_comment_begin(w, token, comment_id)
    \/ \E w \in Workers : delete_comment_end(w)

SpecComments == InitComments /\ [][NextComments]_vars

----------------------------------------------------------------------------
(* Soft deletion and ownership *)

PostRow(ps, post_id) == first({p \in ps : p.post_id = post_id})
CommentRow(cs, comment_id) == first({c \in cs : c.comment_id = comment_id})
LivePosts(ps) == {p \in ps : p.is_deleted = FALSE}

\* the actor is the row's author or an admin
AuthorOrAdmin(actor, row) == actor.role = "admin" \/ actor.user_id = row.author_id

\* C5: a delete_post that succeeds leaves the row of p in storage with
\* is_deleted = true, and a flagged row stays flagged in every later state;
\* from then on every get_post(p) answers 404, every count query of
\* list_posts leaves p out of total, and every items query leaves p out of
\* the page.
C5_SoftDeleteVisibility ==
    [][ /\ \A w \in Workers :
             req[w].op = "delete_post" /\ req'[w] = Idle =>
                /\ resp'.op = "delete_post" /\ resp'.status = 204
                /\ PostRow(posts', req[w].post.post_id) # NoRow
                /\ PostRow(posts', req[w].post.post_id).is_deleted = TRUE
        /\ \A p \in posts :
             p.is_deleted = TRUE =>
                PostRow(posts', p.post_id) # NoRow /\ PostRow(posts', p.post_id).is_deleted = TRUE
        /\ \A p \in posts :
             p.is_deleted = TRUE /\ resp'.op = "get_post" /\ resp'.post_id = p.post_id =>
                resp'.status = 404 /\ resp'.body = NoRow
        /\ \A w \in Workers :
             req[w] = Idle /\ req'[w].op = "list_posts" =>
                req'[w].total = Cardinality(LivePosts(posts))
        /\ resp'.op = "list_posts" =>
             /\ \E w \in Workers : req[w].op = "list_posts" /\ resp'.meta.total = req[w].total
             /\ \A i \in 1..Len(resp'.items) :
                  \E p \in LivePosts(posts) : p.post_id = resp'.items[i]
      ]_vars

\* get_post of a soft-deleted post has answered 404 while a live post exists
C5_Witness ==
    /\ resp.op = "get_post" /\ resp.status = 404
    /\ PostRow(posts, resp.post_id) # NoRow
    /\ PostRow(posts, resp.post_id).is_deleted = TRUE
    /\ LivePosts(posts) # {}

\* what a delete call on an existing row by an authenticated actor may do:
\* answer 403 and change nothing when the actor is neither author nor admin,
\* go on to the write when the actor is author or admin, and then answer 204
\* with the row's flag true
DeleteOutcome(op, field, rows, rowsAfter, rowOf(_, _), idOf(_)) ==
    /\ \A w \in Workers :
         req[w] = Idle /\ req'[w].op = op =>
            /\ AuthorOrAdmin(get_current_user(req'[w].token), req'[w][field])
            /\ rowsAfter = rows
    /\ resp'.op = op /\ resp'.status # 204 =>
         LET actor == get_current_user(resp'.token)
             row == rowOf(rows, idOf(resp'))
         IN  actor # NoRow /\ row # NoRow =>
                /\ resp'.status = 403
                /\ ~AuthorOrAdmin(actor, row)
                /\ rowsAfter = rows
    /\ \A w \in Workers :
         req[w].op = op /\ req'[w] = Idle =>
            /\ resp'.op = op /\ resp'.status = 204 /\ resp'.token = req[w].token
            /\ idOf(resp') = idOf(req[w][field])
            /\ rowOf(rowsAfter, idOf(resp')) # NoRow
            /\ rowOf(rowsAfter, idOf(resp')).is_deleted = TRUE
            /\ \A r \in rows : idOf(r) # idOf(resp') => r \in rowsAfter

PostIdOf(r) == r.post_id
CommentIdOf(r) == r.comment_id

\* C6: delete_post and delete_comment on an existing row answer 403 and
\* leave the table unchanged when the actor is neither the author nor an
\* admin; for the author and for any admin they answer 204 and the row's
\* is_deleted flag is true afterwards.
C6_OwnershipEnforced ==
    [][ /\ DeleteOutcome("delete_post", "post", posts, posts', PostRow, PostIdOf)
        /\ DeleteOutcome("delete_comment", "comment", comments, comments',
                         CommentRow, CommentIdOf)
      ]_vars

\* an admin who is not the author has deleted a comment
C6_Witness ==
    /\ resp.op = "delete_comment" /\ resp.status = 204
    /\ get_current_user(resp.token).role = "admin"
    /\ CommentRow(comments, resp.comment_id).author_id # get_current_user(resp.token).user_id
    /\ CommentRow(comments, resp.comment_id).is_deleted = TRUE

\* a user who is neither author nor admin was refused the deletion of a post
C6_WitnessForbidden ==
    /\ resp.op = "delete_post" /\ resp.status = 403
    /\ PostRow(posts, resp.post_id).is_deleted = FALSE

----------------------------------------------------------------------------
(* Listing the comments of a post *)

\* the pages ORDER BY created_at ASC OFFSET LIMIT may return: rows of equal
\* created_at come in an order the storage engine chooses
page_asc(rows, offset, limit) ==
    { SubSeq(f, offset + 1, IF offset + limit < Len(f) THEN offset + limit ELSE Len(f)) :
        f \in { g \in Perms(rows) :
                  \A i, j \in 1..Cardinality(rows) :
                     i < j => g[i].created_at <= g[j].created_at } }

\* a filter that also wants the post to be visible
comments_of_visible_post(cs, post_id) ==
    { c \in cs : /\ c.post_id = post_id /\ c.is_deleted = FALSE
                 /\ visible_post(posts, post_id) # NoRow }

\* the filter of both queries of list_comments
comments_of_post(cs, post_id) ==
    { c \in cs : c.post_id = post_id /\ c.is_deleted = FALSE }

\* list_comments: the count query
list_comments_count(w, post_id, page, per_page) ==
    /\ req[w] = Idle
    /\ PaginationParams(page, per_page)
    /\ req' = [req EXCEPT ![w] =
                  [op |-> "list_comments", post_id |-> post_id,
                   page |-> page, per_page |-> per_page,
                   total |-> Cardinality(comments_of_post(comments, post_id))]]
    /\ resp' = NoResp
    /\ UNCHANGED <<sessions, users, topics, ratings, posts, comments, clock>>

\* list_comments: the items query and the response
list_comments_items(w) ==
    LET r == req[w]
        meta == list_comments_page(r.page, r.per_page, r.total)
    IN  /\ r.op = "list_comments"
        /\ \E items \in page_asc(comments_of_post(comments, r.post_id),
                                  meta.offset, r.per_page) :
              resp' = [op |-> "list_comments", status |-> 200, post_id |-> r.post_id,
                       meta |-> meta,
                       items |-> [i \in 1..Len(items) |-> items[i].comment_id]]
        /\ req' = [req EXCEPT ![w] = Idle]
        /\ UNCHANGED <<sessions, users, topics, ratings, posts, comments, clock>>

NextCommentList ==
    \/ \E w \in Workers, token \in AuthorTokens, post_id \in PostIds(posts) :
          create_comment_begin(w, token, post_id)
    \/ \E w \in Workers : create_comment_end(w)
    \/ \E w \in Workers, token \in PostTokens, comment_id \in CommentIds(comments) :
          delete_comment_begin(w, token, comment_id)
    \/ \E w \in Workers : delete_comment_end(w)
    \/ \E w \in Workers, post_id \in PostIds(posts), page \in 1..2, per_page \in 1..2 :
          list_comments_count(w, post_id, page, per_page)
    \/ \E w \in Workers : list_comments_items(w)

SpecCommentList == InitComments /\ [][NextCommentList]_vars

\* C11: list_comments returns the comments of a post in the order of their
\* creation, which is the order of their comment_id: of two comments in a
\* response the one created first comes first.
C11_CommentsOldestFirst ==
    resp.op = "list_comments" =>
        \A i, j \in 1..Len(resp.items) : i < j => resp.items[i] < resp.items[j]

----------------------------------------------------------------------------
(* Authentication of the guarded operations *)

\* one post exists and one topic; nobody has rated or commented yet
InitAuth ==
    /\ clock = BootTime + 1
    /\ users = { User(1, "u1", "user"), User(2, "u2", "user"),
                 User(3, "u3", "admin") }
    /\ topics = { Topic(1, "t1") }
    /\ ratings = {}
    /\ posts = { [Post(1, 1) EXCEPT !.created_at = BootTime] }
    /\ comments = {}
    /\ req = [w \in Workers |-> Idle]
    /\ resp = NoResp
    /\ sessions = {}

\* the token of user 1 and every token that does not authenticate
AuthTokens == BadTokens \cup { t \in GoodTokens : t.sub = "1" }

\* requests are served one at a time
AuthWorkers == {"w1"}

\* rate_topic bodies: a valid one, one for another topic, one with a bad score
AuthRatings ==
    { RatingCreate(1, MaxScore, None), RatingCreate(2, MaxScore, None),
      RatingCreate(1, MaxScore + 1, None) }

\* the post ids the requests name: the post of InitAuth and an id with no row
AuthPostIds(ps) == {1, NextPostId(ps)}

NextAuth ==
    \/ \E token \in AuthTokens : create_post(token)
    \/ \E w \in AuthWorkers, token \in AuthTokens, post_id \in AuthPostIds(posts) :
          delete_post_begin(w, token, post_id)
    \/ \E w \in AuthWorkers : delete_post_end(w)
    \/ \E w \in AuthWorkers, token \in AuthTokens, post_id \in AuthPostIds(posts) :
          create_comment_begin(w, token, post_id)
    \/ \E w \in AuthWorkers : create_comment_end(w)
    \/ \E w \in AuthWorkers, token \in AuthTokens, comment_id \in CommentIds(comments) :
          delete_comment_begin(w, token, comment_id)
    \/ \E w \in AuthWorkers : delete_comment_end(w)
    \/ \E w \in AuthWorkers, token \in AuthTokens, topic_id \in 1..2, rating_in \in AuthRatings :
          rate_topic_begin(w, token, topic_id, rating_in)
    \/ \E w \in AuthWorkers : rate_topic_end(w)

SpecAuth == InitAuth /\ [][NextAuth]_vars

\* the requests of SpecComments served one at a time
NextCommentsSeq ==
    \/ \E w \in AuthWorkers, token \in PostTokens, post_id \in PostIds(posts) :
          delete_post_begin(w, token, post_id)
    \/ \E w \in AuthWorkers : delete_post_end(w)
    \/ \E w \in AuthWorkers, token \in AuthorTokens, post_id \in PostIds(posts) :
          create_comment_begin(w, token, post_id)
    \/ \E w \in AuthWorkers : create_comment_end(w)
    \/ \E w \in AuthWorkers, token \in PostTokens, comment_id \in CommentIds(comments) :
          delete_comment_begin(w, token, comment_id)
    \/ \E w \in AuthWorkers : delete_comment_end(w)

SpecCommentsSeq == InitComments /\ [][NextCommentsSeq]_vars

\* the operations behind get_current_user
GuardedOps == {"create_post", "delete_post", "create_comment", "delete_comment",
               "rate_topic"}

\* the token fails validation, or its subject names no stored user
Unauthenticated(token) ==
    \/ token.ok = FALSE
    \/ token.sub = None
    \/ ~IsIntStr(token.sub)
    \/ \A u \in users : u.user_id # int(token.sub)

\* C13: a guarded operation called with a token that fails validation or
\* whose subject names no stored user answers 401, the same in every such
\* case, and writes nothing; no such request gets past the guard.
C13_UnauthenticatedWritesNothing ==
    [][ /\ (resp'.op \in GuardedOps /\ Unauthenticated(resp'.token)) =>
             /\ resp'.status = 401
             /\ UNCHANGED <<sessions, users, topics, ratings, posts, comments>>
        /\ \A w \in Workers :
             (req[w] = Idle /\ req'[w] # Idle /\ req'[w].op \in GuardedOps) =>
                ~Unauthenticated(req'[w].token)
      ]_vars

\* delete_post of an existing, live post was refused to a validly signed
\* token whose subject names no user, while a comment exists
C13_Witness ==
    /\ resp.op = "delete_post" /\ resp.status = 401
    /\ resp.token = [ok |-> TRUE, sub |-> "9"]
    /\ PostRow(posts, resp.post_id) # NoRow
    /\ PostRow(posts, resp.post_id).is_deleted = FALSE
    /\ comments # {}

----------------------------------------------------------------------------
(* Users and topics: app/api/v1/auth.py, app/api/v1/users.py,               *)
(* app/api/v1/topics.py and the admin guard of app/api/deps.py              *)

NextUserId(us) == IF us = {} THEN 1 ELSE Max({u.user_id : u \in us}) + 1
NextTopicId(ts) == IF ts = {} THEN 1 ELSE Max({t.topic_id : t \in ts}) + 1

\* Column(String(50), unique=True) of User.username: may `row` be inserted?
uq_user_username(us, row) == \A u \in us : u.username # row.username

\* Column(String(100), unique=True) of Topic.name: may `row` be inserted?
uq_topic_name(ts, row) == \A t \in ts : t.name # row.name

\* UserCreate: username, and role: Optional[str] = "user"
UserCreate(username, role) == [username |-> username, role |-> role]

\* a registration that ignores the role of the request
always_user(role) == "user"

\* user_in.role or "user": None and the empty string are falsy
role_or_user(role) == IF role = None \/ role = "" THEN "user" ELSE role

\* a lookup that finds no user
no_user(us, username) == NoRow

\* the lookup of register: the user of that username
user_by_username(us, username) == first({u \in us : u.username = username})

\* register down to the check of the username
register_begin(w, user_in) ==
    LET exists == user_by_username(users, user_in.username)
    IN  /\ req[w] = Idle
        /\ IF exists # NoRow
           THEN /\ resp' = [op |-> "register", status |-> 400,
                            user_in |-> user_in, body |-> NoRow]
                /\ req' = req
           ELSE /\ resp' = NoResp
                /\ req' = [req EXCEPT ![w] = [op |-> "register", user_in |-> user_in]]
        /\ UNCHANGED <<sessions, users, topics, ratings, posts, comments, clock>>

\* db.add(user); db.commit(); db.refresh(user).  IntegrityError is not
\* caught, so the request ends in 500
register_end(w) ==
    LET r == req[w]
        user == User(NextUserId(users), r.user_in.username, role_or_user(r.user_in.role))
    IN  /\ r.op = "register"
        /\ IF uq_user_username(users, user)
           THEN /\ users' = users \cup {user}
                /\ resp' = [op |-> "register", status |-> 201,
                            user_in |-> r.user_in, body |-> user]
           ELSE /\ users' = users
                /\ resp' = [op |-> "register", status |-> 500,
                            user_in |-> r.user_in, body |-> NoRow]
        /\ req' = [req EXCEPT ![w] = Idle]
        /\ UNCHANGED <<sessions, topics, ratings, posts, comments, clock>>

\* what get_current_admin raises for a user who is not an admin
Forbidden == [forbidden |-> TRUE]

\* a guard that lets every authenticated user through
any_authenticated_user(current_user) == current_user

get_current_admin(current_user) ==
    IF current_user.role # "admin" THEN Forbidden ELSE current_user

\* the status the two guards end a request with, or 0
admin_guard(token) ==
    IF get_current_user(token) = NoRow THEN 401
    ELSE IF get_current_admin(get_current_user(token)) = Forbidden THEN 403
    ELSE 0

\* create_topic down to the check of the name
create_topic_begin(w, token, name) ==
    LET guard == admin_guard(token)
        exists == first({t \in topics : t.name = name})
        status == IF guard # 0 THEN guard
                  ELSE IF exists # NoRow THEN 400
                  ELSE 0
    IN  /\ req[w] = Idle
        /\ IF status # 0
           THEN /\ resp' = [op |-> "create_topic", status |-> status,
                            token |-> token, name |-> name, body |-> NoRow]
                /\ req' = req
           ELSE /\ resp' = NoResp
                /\ req' = [req EXCEPT ![w] =
                              [op |-> "create_topic", token |-> token, name |-> name,
                               admin |-> get_current_admin(get_current_user(token))]]
        /\ UNCHANGED <<sessions, users, topics, ratings, posts, comments, clock>>

\* db.add(topic); db.commit(); db.refresh(topic).  IntegrityError is not
\* caught, so the request ends in 500
create_topic_end(w) ==
    LET r == req[w]
        topic == Topic(NextTopicId(topics), r.name)
    IN  /\ r.op = "create_topic"
        /\ IF uq_topic_name(topics, topic)
           THEN /\ topics' = topics \cup {topic}
                /\ resp' = [op |-> "create_topic", status |-> 201,
                            token |-> r.token, name |-> r.name, body |-> topic]
           ELSE /\ topics' = topics
                /\ resp' = [op |-> "create_topic", status |-> 500,
                            token |-> r.token, name |-> r.name, body |-> NoRow]
        /\ req' = [req EXCEPT ![w] = Idle]
        /\ UNCHANGED <<sessions, users, ratings, posts, comments, clock>>

\* list_users: the admin guard, then the count and the page arithmetic
list_users(token, page, per_page) ==
    LET guard == admin_guard(token)
    IN  /\ PaginationParams(page, per_page)
        /\ resp' = IF guard # 0
                   THEN [op |-> "list_users", status |-> guard, token |-> token,
                         body |-> NoRow]
                   ELSE [op |-> "list_users", status |-> 200, token |-> token,
                         body |-> list_users_page(page, per_page, Cardinality(users))]
        /\ UNCHANGED <<sessions, users, topics, ratings, posts, comments, clock, req>>

\* an empty database
InitUsers ==
    /\ clock = BootTime
    /\ users = {}
    /\ topics = {}
    /\ ratings = {}
    /\ posts = {}
    /\ comments = {}
    /\ req = [w \in Workers |-> Idle]
    /\ resp = NoResp
    /\ sessions = {}

\* registrations: two usernames; no role, an empty role, the two roles of
\* the application, and another string
Registrations ==
    { UserCreate(username, role) :
        username \in {"u1", "u2"}, role \in {None, "", "user", "admin", "root"} }

TopicNames == {"t1", "t2"}

UsersNext(ws) ==
    \/ \E w \in ws, user_in \in Registrations : register_begin(w, user_in)
    \/ \E w \in ws : register_end(w)
    \/ \E w \in ws, token \in PostTokens, name \in TopicNames :
          create_topic_begin(w, token, name)
    \/ \E w \in ws : create_topic_end(w)
    \/ \E token \in PostTokens, per_page \in 1..2 : list_users(token, 1, per_page)

NextUsers == UsersNext(Workers)
SpecUsers == InitUsers /\ [][NextUsers]_vars

\* the same requests served one at a time
NextUsersSeq == UsersNext(AuthWorkers)
SpecUsersSeq == InitUsers /\ [][NextUsersSeq]_vars

\* the operations behind get_current_admin
AdminOps == {"create_topic", "list_users"}

\* C14: create_topic and list_users answer 403 to an authenticated user whose
\* stored role is not "admin" and create no topic; an admin passes the guard,
\* which hands the handler the stored user row as it is; and the Topic table
\* changes only by the commit of a create_topic request of an admin, which
\* adds one topic.
C14_AdminGuard ==
    [][ /\ (resp'.op \in AdminOps /\ get_current_user(resp'.token) # NoRow
               /\ get_current_user(resp'.token).role # "admin") =>
             resp'.status = 403 /\ topics' = topics
        /\ (resp'.op = "list_users" /\ get_current_user(resp'.token) # NoRow
               /\ get_current_user(resp'.token).role = "admin") =>
             resp'.status = 200
        /\ \A w \in Workers :
             (req[w] = Idle /\ req'[w].op = "create_topic") =>
                /\ req'[w].admin \in users
                /\ req'[w].admin.role = "admin"
                /\ req'[w].admin = get_current_user(req'[w].token)
        /\ topics' # topics =>
             \E w \in Workers :
                /\ req[w].op = "create_topic" /\ req'[w] = Idle
                /\ req[w].admin \in users /\ req[w].admin.role = "admin"
                /\ \E t \in topics' : t \notin topics /\ topics' = topics \cup {t}
      ]_vars

\* a user who is not an admin was refused create_topic while an admin's
\* topic exists
C14_Witness ==
    /\ resp.op = "create_topic" /\ resp.status = 403
    /\ get_current_user(resp.token) # NoRow
    /\ get_current_user(resp.token).role = "user"
    /\ topics # {}

\* no two Topic rows of ts have the same name
TopicNamesUnique(ts) ==
    \A t1 \in ts, t2 \in ts : t1.name = t2.name => t1 = t2

\* C15: no two Topic rows ever have the same name, and every create_topic
\* request of an admin that ends while its name is already stored ends with
\* the duplicate-name Conflict error and adds no topic, also when the name
\* was stored by another request between its check and its insert.
C15_TopicNamesUnique ==
    [][ /\ TopicNamesUnique(topics')
        /\ (resp'.op = "create_topic" /\ admin_guard(resp'.token) = 0
               /\ \E t \in topics : t.name = resp'.name) =>
             resp'.status \in ConflictStatus /\ topics' = topics
      ]_vars

\* no two User rows of us have the same username
UsernamesUnique(us) ==
    \A u1 \in us, u2 \in us : u1.username = u2.username => u1 = u2

\* C16: served one at a time, register with a stored username answers 400
\* and leaves the users unchanged; with a username not stored it answers 201
\* and adds exactly one user, of that username; so no two users share a
\* username.
C16_RegisterUsernameUnique ==
    [][ /\ resp'.op = "register" =>
             IF \E u \in users : u.username = resp'.user_in.username
             THEN resp'.status = 400 /\ users' = users
             ELSE /\ resp'.status = 201
                  /\ \E u \in users' :
                        /\ u \notin users
                        /\ users' = users \cup {u}
                        /\ u.username = resp'.user_in.username
                        /\ resp'.body = u
        /\ users' # users => resp'.op = "register"
        /\ UsernamesUnique(users')
      ]_vars

\* a registration was refused for a taken username while two users exist
C16_Witness ==
    /\ resp.op = "register" /\ resp.status = 400
    /\ Cardinality(users) = 2

C18_ScoreInRange ==
    [][ /\ \A r \in ratings' : r.score \in MinScore..MaxScore
        /\ (resp'.op = "rate_topic" /\ get_current_user(resp'.token) # NoRow
               /\ resp'.rating_in.score \notin MinScore..MaxScore) =>
             resp'.status = 422 /\ ratings' = ratings
        /\ \A w \in Workers :
             req'[w].op = "rate_topic" => req'[w].rating_in.score \in MinScore..MaxScore
      ]_vars

\* a score of 6 was refused to a user whose rating of the topic is stored
C18_Witness ==
    /\ resp.op = "rate_topic" /\ resp.status = 422
    /\ resp.rating_in.score = MaxScore + 1
    /\ RatingsOf(ratings, get_current_user(resp.token).user_id, resp.topic_id) # {}

\* the roles of the application
Roles == {"user", "admin"}

\* C19: every stored user has role "user" or "admin", and a registration
\* that names no role stores "user".
C19_RolesAreUserOrAdmin ==
    [][ /\ \A u \in users' : u.role \in Roles
        /\ (resp'.op = "register" /\ resp'.status = 201
               /\ resp'.user_in.role = None) =>
             resp'.body.role = "user"
      ]_vars

\* C20: every comment is committed on a post that is not soft-deleted at
\* that moment, also when a delete_post of the post commits between the
\* post check and the insert of create_comment.
C20_NoCommentOnDeletedPost ==
    [][ \A c \in comments' :
           (\A d \in comments : d.comment_id # c.comment_id) =>
              /\ PostRow(posts', c.post_id) # NoRow
              /\ PostRow(posts', c.post_id).is_deleted = FALSE
      ]_vars

----------------------------------------------------------------------------
(* Repeated deletion, its frame, and the soft-delete flag over time *)

\* C21: delete_post, and delete_comment, on a row that is already
\* soft-deleted, called by the row's author or an admin, answers 204 and
\* leaves the table as it was.
C21_DeleteIsIdempotent ==
    [][ /\ resp'.op = "delete_post" =>
             LET actor == get_current_user(resp'.token)
                 row == PostRow(posts, resp'.post_id)
             IN  actor # NoRow /\ row # NoRow =>
                    (row.is_deleted = TRUE /\ AuthorOrAdmin(actor, row) =>
                        resp'.status = 204 /\ posts' = posts)
        /\ resp'.op = "delete_comment" =>
             LET actor == get_current_user(resp'.token)
                 row == CommentRow(comments, resp'.comment_id)
             IN  actor # NoRow /\ row # NoRow =>
                    (row.is_deleted = TRUE /\ AuthorOrAdmin(actor, row) =>
                        resp'.status = 204 /\ comments' = comments)
      ]_vars

\* the post that was soft-deleted from the start has been deleted again,
\* and a comment has been deleted as well
C21_Witness ==
    /\ resp.op = "delete_post" /\ resp.status = 204
    /\ PostRow(posts, resp.post_id).author_id = 2
    /\ \E c \in comments : c.is_deleted = TRUE

\* C25: a delete_post that succeeds changes nothing but the is_deleted
\* flag and the updated_at of its own post: the comments of the post keep
\* their rows and flags, and every other Post, Comment, Topic, Rating and
\* User row is unchanged.
C25_DeletePostFrame ==
    [][ resp'.op = "delete_post" /\ resp'.status = 204 =>
          /\ comments' = comments
          /\ topics' = topics /\ ratings' = ratings /\ users' = users
          /\ \A p \in posts : p.post_id # resp'.post_id => p \in posts'
          /\ \A q \in posts' : q.post_id # resp'.post_id => q \in posts
          /\ LET p == PostRow(posts, resp'.post_id)
                 q == PostRow(posts', resp'.post_id)
             IN  /\ p # NoRow /\ q # NoRow
                 /\ q = [p EXCEPT !.is_deleted = q.is_deleted,
                                   !.updated_at = q.updated_at]
      ]_vars

\* a post with a live comment has been deleted while another post exists
C25_Witness ==
    /\ resp.op = "delete_post" /\ resp.status = 204
    /\ \E c \in comments : c.post_id = resp.post_id /\ c.is_deleted = FALSE
    /\ \E p \in posts : p.post_id # resp.post_id

\* C26: no step removes a Post or Comment row, and no step sets the
\* is_deleted flag of a row back to false.
C26_SoftDeleteMonotone ==
    [][ /\ \A p \in posts :
             /\ PostRow(posts', p.post_id) # NoRow
             /\ p.is_deleted = TRUE => PostRow(posts', p.post_id).is_deleted = TRUE
        /\ \A c \in comments :
             /\ CommentRow(comments', c.comment_id) # NoRow
             /\ c.is_deleted = TRUE => CommentRow(comments', c.comment_id).is_deleted = TRUE
      ]_vars

\* a comment was created after another comment and a post were soft-deleted
C26_Witness ==
    /\ resp.op = "create_comment" /\ resp.status = 201
    /\ \E c \in comments : c.is_deleted = TRUE
    /\ \A p \in posts : p.author_id = 1 => p.is_deleted = TRUE

----------------------------------------------------------------------------
(* The update time of a rating *)

\* C22: when rate_topic updates a stored rating, the row's updated_at is
\* the time of that call: not earlier than the updated_at the row had, and
\* later than created_at once the clock has passed created_at.
C22_UpdatedAtIsTimeOfUpdate ==
    [][ resp'.op = "rate_topic" /\ resp'.status = 201 =>
          LET old == first({r \in ratings : r.rating_id = resp'.body.rating_id})
              new == resp'.body
          IN  old # NoRow =>
                 /\ new.updated_at = clock
                 /\ new.updated_at >= old.updated_at
                 /\ clock > new.created_at => new.updated_at > new.created_at
      ]_vars

----------------------------------------------------------------------------
(* SpecSession: the session of a request, app/api/deps.py get_db.  The     *)
(* dependency is a generator: it opens the session, yields it to the rest  *)
(* of the request, and its finally clause runs when the request is over,   *)
(* whether the rest returned or raised.  A dependency is resolved once per *)
(* request, so get_current_user and the handler share the session.         *)

\* handlers that take get_db, one for each shape of dependencies, with the
\* statuses they end in: a 2xx by returning, the others by an exception
\* (401 get_current_user, 403 get_current_admin or the permission check,
\* 400 and 404 HTTPException of the body, 422 request validation, 500
\* IntegrityError out of db.commit())
Exits ==
    [ register     |-> {201, 400, 422, 500},
      get_post     |-> {200, 404},
      delete_post  |-> {204, 401, 403, 404},
      create_topic |-> {201, 400, 401, 403, 500},
      rate_topic   |-> {201, 400, 401, 404, 422, 500},
      list_users   |-> {200, 401, 403, 422} ]

\* db = SessionLocal(); try: yield db
get_db_enter(w, handler) ==
    /\ req[w] = Idle
    /\ sessions' = sessions \cup {w}
    /\ req' = [req EXCEPT ![w] = [op |-> handler, pc |-> "yield", status |-> 0]]
    /\ resp' = NoResp
    /\ UNCHANGED <<users, topics, ratings, posts, comments, clock>>

\* the other dependencies and the handler body run with the session and
\* end by returning or by raising
handler_exit(w, status) ==
    /\ req[w].op \in DOMAIN Exits
    /\ req[w].pc = "yield"
    /\ status \in Exits[req[w].op]
    /\ req' = [req EXCEPT ![w] = [@ EXCEPT !.pc = "finally", !.status = status]]
    /\ resp' = NoResp
    /\ UNCHANGED <<sessions, users, topics, ratings, posts, comments, clock>>

\* a generator that closes the session only after a normal return
close_on_return(ss, w, status) == IF status < 400 THEN ss \ {w} ELSE ss

\* finally: db.close()
db_close(ss, w, status) == ss \ {w}

\* the generator is resumed or the exception is thrown into it; then the
\* response goes out
get_db_exit(w) ==
    /\ req[w].op \in DOMAIN Exits
    /\ req[w].pc = "finally"
    /\ sessions' = db_close(sessions, w, req[w].status)
    /\ resp' = [op |-> req[w].op, status |-> req[w].status]
    /\ req' = [req EXCEPT ![w] = Idle]
    /\ UNCHANGED <<users, topics, ratings, posts, comments, clock>>

NextSession ==
    \/ \E w \in Workers, handler \in DOMAIN Exits : get_db_enter(w, handler)
    \/ \E w \in Workers, status \in UNION {Exits[h] : h \in DOMAIN Exits} :
          handler_exit(w, status)
    \/ \E w \in Workers : get_db_exit(w)

SpecSession == InitPosts /\ [][NextSession]_vars

\* C23: a request that is over holds no session, however it ended; when no
\* request is in progress no session is open.
C23_SessionsReleased ==
    /\ \A w \in Workers : req[w] = Idle => w \notin sessions
    /\ (\A w \in Workers : req[w] = Idle) => sessions = {}

\* a request has ended in an exception and none is in progress
C23_Witness ==
    /\ resp.op \in DOMAIN Exits
    /\ resp.status >= 400
    /\ \A w \in Workers : req[w] = Idle
    /\ sessions = {}

----------------------------------------------------------------------------
(* SpecTxn: the write and the read-back of the handlers that create a row. *)
(* Each of them runs db.add(row); db.commit(); db.refresh(row): the commit *)
(* ends the transaction of the INSERT, and refresh reads the row in a new  *)
(* one.  A statement can fail with a storage error, which no handler       *)
(* catches.                                                                *)

\* the request has committed and is about to read the row back
Refreshing(handler, token, row) ==
    [op |-> "refresh", handler |-> handler, token |-> token, row |-> row]

\* create_post down to db.commit()
create_post_commit(w, token) ==
    LET current_user == get_current_user(token)
        post == Post(NextPostId(posts), current_user.user_id)
    IN  /\ req[w] = Idle
        /\ Cardinality(posts) < MaxPosts
        /\ IF current_user = NoRow
           THEN /\ posts' = posts
                /\ clock' = clock
                /\ req' = req
                /\ resp' = [op |-> "create_post", status |-> 401, token |-> token,
                            body |-> NoRow]
           ELSE /\ posts' = posts \cup {post}
                /\ clock' = clock + 1
                /\ req' = [req EXCEPT ![w] = Refreshing("create_post", token, post)]
                /\ resp' = NoResp
        /\ UNCHANGED <<sessions, users, topics, ratings, comments>>

\* register: db.add(user); db.commit()
register_commit(w) ==
    LET r == req[w]
        user == User(NextUserId(users), r.user_in.username, role_or_user(r.user_in.role))
    IN  /\ r.op = "register"
        /\ IF uq_user_username(users, user)
           THEN /\ users' = users \cup {user}
                /\ req' = [req EXCEPT ![w] = Refreshing("register", None, user)]
                /\ resp' = NoResp
           ELSE /\ users' = users
                /\ req' = [req EXCEPT ![w] = Idle]
                /\ resp' = [op |-> "register", status |-> 500,
                            user_in |-> r.user_in, body |-> NoRow]
        /\ UNCHANGED <<sessions, topics, ratings, posts, comments, clock>>

\* rate_topic: db.commit() of the INSERT or UPDATE
rate_topic_commit_step(w) ==
    LET r == req[w]
        res == rate_topic_commit(ratings, r.user_id, r.topic_id, r.rating_in, r.rating)
    IN  /\ r.op = "rate_topic"
        /\ IF res.ok
           THEN /\ ratings' = res.rows
                /\ req' = [req EXCEPT ![w] =
                              Refreshing("rate_topic", r.token,
                                         first({x \in res.rows : x.rating_id = res.rating_id}))]
                /\ resp' = NoResp
           ELSE /\ ratings' = ratings
                /\ req' = [req EXCEPT ![w] = Idle]
                /\ resp' = RateResp(500, r.token, r.topic_id, r.rating_in, ratings, 0)
        /\ UNCHANGED <<sessions, users, topics, posts, comments, clock>>

\* db.refresh(row) and the return: the SELECT succeeds and the handler
\* returns the row, or it raises a storage error and the request ends in 500
db_refresh(w, ok) ==
    LET r == req[w]
    IN  /\ r.op = "refresh"
        /\ resp' = [op |-> r.handler, status |-> IF ok THEN 201 ELSE 500,
                    token |-> r.token, body |-> IF ok THEN r.row ELSE NoRow]
        /\ req' = [req EXCEPT ![w] = Idle]
        /\ UNCHANGED <<sessions, users, topics, ratings, posts, comments, clock>>

\* the token of user 1 and one that does not authenticate
TxnTokens == { t \in PostTokens : t.sub = "1" }

\* a registration of a new username and one of a stored username
TxnRegistrations == { UserCreate("u4", None), UserCreate("u1", None) }

NextTxn ==
    \/ \E w \in Workers, token \in TxnTokens : create_post_commit(w, token)
    \/ \E w \in Workers, user_in \in TxnRegistrations : register_begin(w, user_in)
    \/ \E w \in Workers : register_commit(w)
    \/ \E w \in Workers, c \in GoodCalls({"1"}, {1}) :
          rate_topic_begin(w, c.token, c.topic_id, c.rating_in)
    \/ \E w \in Workers : rate_topic_commit_step(w)
    \/ \E w \in Workers, ok \in BOOLEAN : db_refresh(w, ok)

SpecTxn == InitAuth /\ [][NextTxn]_vars

\* C24: when a request of create_post, register or rate_topic fails at the
\* read-back, after its write, the row it wrote is in no table.
C24_FailedRequestLeavesNoRow ==
    [][ \A w \in Workers :
          req[w].op = "refresh" /\ req'[w] = Idle /\ resp'.status = 500 =>
             /\ req[w].handler = "create_post" =>
                  PostRow(posts', req[w].row.post_id) = NoRow
             /\ req[w].handler = "register" =>
                  user_by_username(users', req[w].row.username) = NoRow
             /\ req[w].handler = "rate_topic" =>
                  \A x \in ratings' : x.rating_id # req[w].row.rating_id
      ]_vars

----------------------------------------------------------------------------
(* list_comments and the post it is asked about *)

\* comments, post deletion and list_comments, one request at a time
NextCommentListSeq ==
    \/ \E w \in AuthWorkers, token \in AuthorTokens, post_id \in PostIds(posts) :
          delete_post_begin(w, token, post_id)
    \/ \E w \in AuthWorkers : delete_post_end(w)
    \/ \E w \in AuthWorkers, token \in AuthorTokens, post_id \in PostIds(posts) :
          create_comment_begin(w, token, post_id)
    \/ \E w \in AuthWorkers : create_comment_end(w)
    \/ \E w \in AuthWorkers, token \in AuthorTokens, comment_id \in CommentIds(comments) :
          delete_comment_begin(w, token, comment_id)
    \/ \E w \in AuthWorkers : delete_comment_end(w)
    \/ \E w \in AuthWorkers, post_id \in PostIds(posts), page \in 1..2, per_page \in 1..2 :
          list_comments_count(w, post_id, page, per_page)
    \/ \E w \in AuthWorkers : list_comments_items(w)

SpecCommentListSeq == InitComments /\ [][NextCommentListSeq]_vars

\* the ids of the comments of a post that are not soft-deleted
LiveCommentIds(cs, post_id) ==
    { c.comment_id : c \in { d \in cs : d.post_id = post_id /\ d.is_deleted = FALSE } }

\* C27: list_comments answers 200 whatever the state of the post: its total
\* is the number of comments of that post id that are not soft-deleted, its
\* items are among them and are all of them when the page is large enough,
\* also for a soft-deleted post; for a post id with no row the total is 0
\* and the page is empty.
C27_ListCommentsIgnoresPost ==
    [][ /\ \A w \in Workers :
             req[w] = Idle /\ req'[w].op = "list_comments" =>
                req'[w].total = Cardinality(LiveCommentIds(comments, req'[w].post_id))
        /\ resp'.op = "list_comments" =>
             LET live == LiveCommentIds(comments, resp'.post_id)
                 items == { resp'.items[i] : i \in 1..Len(resp'.items) }
             IN  /\ resp'.status = 200
                 /\ \E w \in Workers :
                      req[w].op = "list_comments" /\ resp'.meta.total = req[w].total
                 /\ items \subseteq live
                 /\ resp'.meta.page = 1 /\ resp'.meta.per_page >= Cardinality(live) =>
                      items = live
                 /\ PostRow(posts, resp'.post_id) = NoRow =>
                      resp'.meta.total = 0 /\ resp'.items = << >>
      ]_vars

\* the comments of a soft-deleted post have been listed
C27_Witness ==
    /\ resp.op = "list_comments" /\ resp.status = 200
    /\ PostRow(posts, resp.post_id) # NoRow
    /\ PostRow(posts, resp.post_id).is_deleted = TRUE
    /\ Len(resp.items) > 0
    /\ resp.meta.total = Len(resp.items)

----------------------------------------------------------------------------
(* The two queries of list_posts *)

\* C28: the number of items of a list_posts response is
\* min(per_page, max(0, total - (page - 1) * per_page)) for the total of the
\* same response.
C28_ItemsMatchTotal ==
    resp.op = "list_posts" =>
        LET rest == resp.meta.total - (resp.meta.page - 1) * resp.meta.per_page
            left == IF rest > 0 THEN rest ELSE 0
        IN  Len(resp.items) = IF resp.meta.per_page < left THEN resp.meta.per_page ELSE left

----------------------------------------------------------------------------
(* The order of the checks of delete_post *)

\* C29: delete_post by an authenticated actor answers 404 for a post id
\* with no row, whoever the actor is, and 403 for a soft-deleted post whose
\* author the actor is not, unless the actor is an admin; get_post answers
\* 404 for a soft-deleted post.
C29_ExistenceThenPermission ==
    [][ /\ resp'.op = "delete_post" /\ get_current_user(resp'.token) # NoRow =>
             LET actor == get_current_user(resp'.token)
                 row == PostRow(posts, resp'.post_id)
             IN  /\ row = NoRow => resp'.status = 404
                 /\ row # NoRow =>
                      (row.is_deleted = TRUE /\ ~AuthorOrAdmin(actor, row) =>
                          resp'.status = 403)
        /\ resp'.op = "get_post" =>
             LET row == PostRow(posts, resp'.post_id)
             IN  row # NoRow => (row.is_deleted = TRUE => resp'.status = 404)
      ]_vars

\* a user who is neither the author nor an admin was refused the deletion
\* of a soft-deleted post
C29_Witness ==
    /\ resp.op = "delete_post" /\ resp.status = 403
    /\ PostRow(posts, resp.post_id) # NoRow
    /\ PostRow(posts, resp.post_id).is_deleted = TRUE

----------------------------------------------------------------------------
(* SpecLogin: register, login and the admin operations, one request at a   *)
(* time, from an empty database                                            *)

\* str(subject) for the user ids of the model
str(n) == CASE n = 1 -> "1" [] n = 2 -> "2" [] n = 3 -> "3"

\* app/core/security.py: a signed token with sub = str(user_id), which
\* jwt.decode accepts until it expires
create_access_token(subject) == [ok |-> TRUE, sub |-> str(subject)]

\* login: the user of that username, verify_password, the token
login(username, password_ok) ==
    LET user == first({u \in users : u.username = username})
    IN  /\ resp' = IF user = NoRow \/ ~password_ok
                   THEN [op |-> "login", status |-> 400, username |-> username,
                         body |-> NoRow]
                   ELSE [op |-> "login", status |-> 200, username |-> username,
                         body |-> create_access_token(user.user_id)]
        /\ UNCHANGED <<sessions, users, topics, ratings, posts, comments, clock, req>>

NextLogin ==
    \/ \E w \in AuthWorkers, user_in \in Registrations : register_begin(w, user_in)
    \/ \E w \in AuthWorkers : register_end(w)
    \/ \E username \in {"u1", "u2"}, password_ok \in BOOLEAN : login(username, password_ok)
    \/ \E w \in AuthWorkers, token \in PostTokens, name \in TopicNames :
          create_topic_begin(w, token, name)
    \/ \E w \in AuthWorkers : create_topic_end(w)
    \/ \E token \in PostTokens, per_page \in 1..2 : list_users(token, 1, per_page)

SpecLogin == InitUsers /\ [][NextLogin]_vars

\* C30: register stores the role of the request as it is, and "user" when
\* the role is missing or empty; the token login gives a registered user
\* authenticates as that user; create_topic and list_users refuse no caller
\* whose stored role is "admin"; no step changes a stored user.
C30_RegisterGrantsRequestedRole ==
    [][ /\ resp'.op = "register" /\ resp'.status = 201 =>
             /\ resp'.body \in users'
             /\ resp'.body.role = IF resp'.user_in.role \in {None, ""} THEN "user"
                                  ELSE resp'.user_in.role
        /\ resp'.op = "login" /\ resp'.status = 200 =>
             /\ get_current_user(resp'.body) # NoRow
             /\ get_current_user(resp'.body).username = resp'.username
        /\ resp'.op \in {"create_topic", "list_users"} =>
             LET actor == get_current_user(resp'.token)
             IN  actor # NoRow => (actor.role = "admin" => resp'.status \notin {401, 403})
        /\ \A u \in users : u \in users'
      ]_vars

\* starting with no user at all, a caller whose stored role is "admin" has
\* created a topic
C30_Witness ==
    /\ resp.op = "create_topic" /\ resp.status = 201
    /\ get_current_user(resp.token) # NoRow
    /\ get_current_user(resp.token).role = "admin"
    /\ topics # {}

====
